---- MODULE Spec2Model ----
(***************************************************************************)
(* Model of src/lib/mods/coreopts.rs: the getopts-like wrapper over clap.  *)
(*                                                                         *)
(* A name (Rust &str) is a sequence of one-character strings, so that      *)
(* is_empty() and len() are computed as the code computes them.            *)
(* An argument string is a token [dash, body]: dash = 0 is a plain word,   *)
(* dash = 1 is "-" followed by body, dash = 2 is "--" followed by body.     *)
(* Option<T> is a sequence of length 0 (None) or 1 (Some).                 *)
(*                                                                         *)
(* clap is modelled as it behaves in a release build (App::arg accepts any *)
(* Arg; the uniqueness checks of clap are debug assertions).  A panic and  *)
(* process::exit end the process: no operation follows them.               *)
(***************************************************************************)
EXTENDS Integers, Sequences, FiniteSets, TLC

\* ------------------------------------------------------------------ bounds
MaxOpts == 2        \* registration calls on one CoreOptions
MaxArgs == 3        \* length of an argument vector handed to parse
MaxMatches == 1     \* Matches values alive at the same time

\* ------------------------------------------------------------------ inputs
al == <<"a", "l">>
be == <<"b", "e">>
zz == <<"z", "z">>
help == <<"h", "e", "l", "p">>
version == <<"v", "e", "r", "s", "i", "o", "n">>
ARGS == <<"A", "R", "G", "S">>

Shorts == {<<>>, <<"a">>}
Longs == {<<>>, al, be}
ShortLists == {<<>>, << <<"a">> >>, << <<"a">>, <<"b">> >>}
LongLists == {<<>>, <<al>>, <<al, be>>}
CommonOps == {"optflag", "optflagopt", "optflagmulti", "optopt", "optmulti"}
ProgNames == {"ls"}

Word(b) == [dash |-> 0, body |-> b]
ShortTok(b) == [dash |-> 1, body |-> b]
LongTok(b) == [dash |-> 2, body |-> b]
Tokens ==
  {Word(<<"x">>), Word(<<"y">>), ShortTok(<<"a">>), LongTok(al), LongTok(be),
   LongTok(help), LongTok(version)}
\* the strings tried as args[0], the program name
ProgTokens == {Word(<<"x">>), LongTok(al)}
ArgVectors ==
  {<<>>} \cup
  {<<p>> \o rest : p \in ProgTokens,
                   rest \in UNION {[1..n -> Tokens] : n \in 0..(MaxArgs - 1)}}
QueryNames == {<<"a">>, <<"b">>, al, be, zz, ARGS}

\* ------------------------------------------------------------------- state
VARIABLES
  help_text,      \* CoreOptions.help_text (only name is read by parse)
  options,        \* CoreOptions.options : Option<App>
  short_to_long,  \* the HashMap behind the Rc shared with every Matches
  matches,        \* the Matches values the caller holds (each holds the Rc)
  status,         \* "running" | "exit" | "panic"
  exit_code,      \* code given to process::exit, -1 while running
  stdout,         \* what print! wrote
  stderr,         \* what eprintln! and the panic handler wrote
  engine,         \* outcome of the last get_matches_from_safe call
  call            \* the last operation called and its arguments

vars == <<help_text, options, short_to_long, matches, status, exit_code,
          stdout, stderr, engine, call>>

Call(op, short_name, long_name, args) ==
  [op |-> op, short |-> short_name, long |-> long_name, args |-> args]

None == <<>>
Some(v) == <<v>>
is_empty(nm) == Len(nm) = 0

\* --------------------------------------------------------- clap: Arg, App
\* Arg::with_name(n): no short, no long, no alias, every setting off
Arg_with_name(n) ==
  [name |-> n, short |-> "", long |-> <<>>, aliases |-> <<>>, index |-> 0,
   takes_value |-> FALSE, multiple |-> FALSE, min_vals |-> -1,
   hyphen |-> FALSE]

\* Arg::short keeps the first character of the string, if any
Arg_short(arg, s) == [arg EXCEPT !.short = IF s = <<>> THEN "" ELSE s[1]]
Arg_long(arg, l) == [arg EXCEPT !.long = l]
\* Arg::alias adds a hidden alias of the long name
Arg_alias(arg, n) == [arg EXCEPT !.aliases = Append(@, n)]

RECURSIVE Arg_aliases(_, _)
Arg_aliases(arg, names) ==
  IF names = <<>> THEN arg
  ELSE Arg_aliases(Arg_alias(arg, Head(names)), Tail(names))

\* App::new(..) followed by the hidden positional "ARGS" of CoreOptions::new
NewApp ==
  << [Arg_with_name(ARGS) EXCEPT !.index = 1, !.multiple = TRUE,
                                 !.takes_value = TRUE] >>

NoApp == [some |-> FALSE, args |-> <<>>]
SomeApp(a) == [some |-> TRUE, args |-> a]

\* the closure each registration operation hands to optcommon
ApplyFunc(op, arg, short_names, long_names) ==
  CASE op = "optflag" -> arg
    [] op = "optflagopt" ->
         [arg EXCEPT !.takes_value = TRUE, !.min_vals = 0, !.hyphen = FALSE]
    [] op = "optflagmulti" -> [arg EXCEPT !.multiple = TRUE, !.hyphen = FALSE]
    [] op = "optopt" -> [arg EXCEPT !.takes_value = TRUE]
    [] op = "optmulti" -> [arg EXCEPT !.multiple = TRUE, !.takes_value = TRUE]
    [] op = "optflags" ->
         Arg_aliases(Arg_aliases(arg, short_names), long_names)

\* ------------------------------------------------------------ Rc<HashMap>
\* one owner is the CoreOptions, the others are the Matches alive
Rc_strong_count == 1 + Len(matches)

\* Rc::get_mut is Some only for the sole owner
Rc_get_mut_unchecked == TRUE

Rc_get_mut_is_some == Rc_strong_count = 1

HashMap_insert_if_vacant(map, k, v) ==
  [x \in DOMAIN map \cup {k} |-> IF x \in DOMAIN map THEN map[x] ELSE v]

HashMap_insert(map, k, v) ==
  [x \in DOMAIN map \cup {k} |-> IF x = k THEN v ELSE map[x]]

\* ---------------------------------------------------------------- optcommon
PanicNoName == "option has neither a short nor a long name"
PanicUnwrap == "called Option::unwrap() on a None value"

\* the Arg built by optcommon before func is applied
BuildArg(short_name, long_name) ==
  LET named == IF ~is_empty(long_name)
               THEN LET long == Arg_long(Arg_with_name(long_name), long_name)
                    IN IF ~is_empty(short_name)
                       THEN Arg_short(long, short_name)
                       ELSE long
               ELSE Arg_short(Arg_with_name(short_name), short_name)
  IN [named EXCEPT !.hyphen = TRUE]

\* the branch optcommon takes: which Arg it builds, or how it panics
optcommon_branch_unchecked(short_name, long_name) ==
  IF ~is_empty(long_name)
  THEN IF ~is_empty(short_name)
       THEN IF Rc_get_mut_is_some THEN "insert" ELSE PanicUnwrap
       ELSE "long"
  ELSE "short"

optcommon_branch_make_mut(short_name, long_name) ==
  IF ~is_empty(long_name)
  THEN IF ~is_empty(short_name) THEN "insert" ELSE "long"
  ELSE IF ~is_empty(short_name) THEN "short"
  ELSE PanicNoName

optcommon_branch(short_name, long_name) ==
  IF ~is_empty(long_name)
  THEN IF ~is_empty(short_name)
       THEN IF Rc_get_mut_is_some THEN "insert" ELSE PanicUnwrap
       ELSE "long"
  ELSE IF ~is_empty(short_name) THEN "short"
  ELSE PanicNoName

\* optcommon: options is taken first; the closure then either panics, leaving
\* options None, or yields the App with the new Arg.
optcommon(op, short_name, long_name, short_names, long_names) ==
  /\ status = "running"
  /\ options.some
  /\ Len(options.args) - 1 < MaxOpts
  /\ call' = Call(op, short_name, long_name, <<>>)
  /\ LET branch == optcommon_branch(short_name, long_name)
     IN IF branch \in {PanicUnwrap, PanicNoName}
        THEN /\ options' = NoApp
             /\ status' = "panic"
             /\ stderr' = Append(stderr, branch)
             /\ UNCHANGED short_to_long
        ELSE /\ short_to_long' =
                  IF branch = "insert"
                  THEN HashMap_insert(short_to_long, short_name, long_name)
                  ELSE short_to_long
             /\ options' = SomeApp(Append(options.args,
                    ApplyFunc(op, BuildArg(short_name, long_name),
                              short_names, long_names)))
             /\ UNCHANGED <<status, stderr>>
  /\ UNCHANGED <<help_text, matches, exit_code, stdout, engine>>

optflag == \E s \in Shorts, l \in Longs : optcommon("optflag", s, l, <<>>, <<>>)
optflagopt ==
  \E s \in Shorts, l \in Longs : optcommon("optflagopt", s, l, <<>>, <<>>)
optflagmulti ==
  \E s \in Shorts, l \in Longs : optcommon("optflagmulti", s, l, <<>>, <<>>)
optopt == \E s \in Shorts, l \in Longs : optcommon("optopt", s, l, <<>>, <<>>)
optmulti == \E s \in Shorts, l \in Longs : optcommon("optmulti", s, l, <<>>, <<>>)

optflags ==
  \E short_names \in ShortLists, long_names \in LongLists :
    LET short == IF short_names = <<>> THEN <<>> ELSE short_names[1]
        long == IF long_names = <<>> THEN <<>> ELSE long_names[1]
        srest == IF short_names = <<>> THEN <<>> ELSE Tail(short_names)
        lrest == IF long_names = <<>> THEN <<>> ELSE Tail(long_names)
    IN optcommon("optflags", short, long, srest, lrest)

\* ------------------------------------------- clap: get_matches_from_safe
\* ArgMatcher: arg name -> [occurs, vals]
ArgMatcher_entry(m, n) == IF n \in DOMAIN m THEN m[n] ELSE [occurs |-> 0, vals |-> <<>>]
ArgMatcher_put(m, n, e) == [x \in DOMAIN m \cup {n} |-> IF x = n THEN e ELSE m[x]]
inc_occurrence_of(m, n) ==
  ArgMatcher_put(m, n, [ArgMatcher_entry(m, n) EXCEPT !.occurs = @ + 1])
add_val_to(m, n, v) ==
  ArgMatcher_put(m, n, [ArgMatcher_entry(m, n) EXCEPT !.vals = Append(@, v)])

\* clap keeps options (takes_value), flags and positionals in separate lists
IsOpt(a) == a.index = 0 /\ a.takes_value
IsFlag(a) == a.index = 0 /\ ~a.takes_value
IsPos(a) == a.index > 0
OptsThenFlags(app) == SelectSeq(app, IsOpt) \o SelectSeq(app, IsFlag)

First(seq) == IF seq = <<>> THEN None ELSE Some(seq[1])

HasLong(a, l) ==
  /\ a.long # <<>>
  /\ \/ a.long = l
     \/ \E i \in DOMAIN a.aliases : a.aliases[i] = l
find_by_long(app, l) ==
  LET Is(a) == HasLong(a, l) IN First(SelectSeq(OptsThenFlags(app), Is))
find_by_short(app, c) ==
  LET Is(a) == a.short = c IN First(SelectSeq(OptsThenFlags(app), Is))
find_by_name(app, n) ==
  LET Is(a) == a.name = n
  IN First(SelectSeq(OptsThenFlags(app) \o SelectSeq(app, IsPos), Is))

NotFound == [kind |-> "NotFound", name |-> <<>>]
ParseResult(k, n) == [kind |-> k, name |-> n]

\* Parser::is_new_arg: a token after an option that allows hyphen values is
\* one of its values
is_new_arg(app, tok, needs_val_of) ==
  LET arg_allows_tac ==
        /\ needs_val_of.kind = "Opt"
        /\ find_by_name(app, needs_val_of.name)[1].hyphen
  IN IF needs_val_of.kind = "ValuesDone" THEN TRUE
     ELSE IF tok.dash > 0 THEN ~arg_allows_tac
     ELSE FALSE

\* ArgMatcher::needs_more_vals (no num_vals, no max_vals is ever set)
needs_more_vals(a) == IF a.min_vals >= 0 THEN TRUE ELSE a.multiple

EngineOk(m) == [kind |-> "Ok", inner |-> m, msg |-> ""]
EngineErr(k, msg) == [kind |-> k, inner |-> <<>>, msg |-> msg]

\* Validator: an option left without a value, an argument used twice
validate(app, needs_val_of, m) ==
  LET empty_value ==
        /\ needs_val_of.kind = "Opt"
        /\ LET o == find_by_name(app, needs_val_of.name)[1]
           IN ArgMatcher_entry(m, o.name).vals = <<>> /\ o.min_vals # 0
      multiple_usage ==
        \E n \in DOMAIN m :
          /\ m[n].occurs > 1
          /\ ~find_by_name(app, n)[1].multiple
  IN IF empty_value THEN EngineErr("EmptyValue", "requires a value")
     ELSE IF multiple_usage
     THEN EngineErr("UnexpectedMultipleUsage", "provided more than once")
     ELSE EngineOk(m)

\* the argument loop of Parser::get_matches_with, from token i on
RECURSIVE get_matches_with(_, _, _, _, _)
get_matches_with(app, args, i, needs_val_of, m) ==
  IF i > Len(args) THEN validate(app, needs_val_of, m)
  ELSE
    LET tok == args[i]
        starts_new_arg == is_new_arg(app, tok, needs_val_of)
        found == IF tok.dash = 2 THEN find_by_long(app, tok.body)
                 ELSE find_by_short(app, tok.body[1])
    IN IF starts_new_arg /\ tok.dash > 0
       THEN \* parse_long_arg / parse_short_arg
         IF found # None
         THEN get_matches_with(app, args, i + 1,
                ParseResult(IF IsOpt(found[1]) THEN "Opt" ELSE "Flag",
                            found[1].name),
                inc_occurrence_of(m, found[1].name))
         ELSE IF tok.body = help \/ (tok.dash = 1 /\ tok.body = <<"h">>)
         THEN EngineErr("HelpDisplayed", "USAGE")
         ELSE IF tok.body = version \/ (tok.dash = 1 /\ tok.body = <<"V">>)
         THEN EngineErr("VersionDisplayed", "VERSION")
         ELSE EngineErr("UnknownArgument", "wasn't expected")
       ELSE IF ~starts_new_arg /\ needs_val_of.kind = "Opt"
       THEN \* a value of the option parsed before
         LET o == find_by_name(app, needs_val_of.name)[1]
         IN get_matches_with(app, args, i + 1,
              IF needs_more_vals(o) THEN needs_val_of
              ELSE ParseResult("ValuesDone", <<>>),
              add_val_to(m, o.name, tok))
       ELSE \* a value of the positional (index 1, multiple)
         LET p == First(SelectSeq(app, IsPos))[1]
         IN get_matches_with(app, args, i + 1, needs_val_of,
              inc_occurrence_of(add_val_to(m, p.name, tok), p.name))

\* App::get_matches_from_safe: the first string is the binary name
get_matches_from_safe(app, args) ==
  get_matches_with(app, args, 2, NotFound, <<>>)

\* ArgMatches::is_present, values_of, value_of
is_present(inner, nm) == nm \in DOMAIN inner
values_of(inner, nm) ==
  IF nm \in DOMAIN inner THEN Some(inner[nm].vals) ELSE None
value_of(inner, nm) ==
  IF nm \in DOMAIN inner /\ inner[nm].vals # <<>> THEN Some(inner[nm].vals[1])
  ELSE None

\* ----------------------------------------------------------------- Matches
\* Matches holds the Rc, not a copy: a query reads the shared table
convert_name_identity(nm) == nm

convert_name_args(nm) ==
  IF Len(nm) # 1 THEN nm
  ELSE IF nm \in DOMAIN short_to_long THEN short_to_long[nm] ELSE ARGS

convert_name(nm) ==
  IF Len(nm) # 1 THEN nm
  ELSE IF nm \in DOMAIN short_to_long THEN short_to_long[nm] ELSE nm

opt_present(m, nm) == is_present(m.inner, convert_name(nm))

opts_present(m, names) ==
  \E i \in DOMAIN names : is_present(m.inner, convert_name(names[i]))

opt_str(m, nm) == value_of(m.inner, convert_name(nm))

\* --------------------------------------------------------------- lifecycle
\* CoreOptions::new
Init ==
  /\ help_text \in [name : ProgNames]
  /\ options = SomeApp(NewApp)
  /\ short_to_long = <<>>
  /\ matches = <<>>
  /\ status = "running"
  /\ exit_code = -1
  /\ stdout = <<>>
  /\ stderr = <<>>
  /\ engine = "none"
  /\ call = Call("new", <<>>, <<>>, <<>>)

\* the Matches built at the end of parse
NewMatches_wrong_name(inner) ==
  LET vals == values_of(inner, <<"A", "R", "G">>)
  IN [free |-> IF vals = None THEN <<>> ELSE vals[1], inner |-> inner]

NewMatches(inner) ==
  LET vals == values_of(inner, ARGS)
  IN [free |-> IF vals = None THEN <<>> ELSE vals[1], inner |-> inner]

\* the arm of the match in parse that the engine's result selects
classify_help_only(kind) ==
  IF kind = "Ok" THEN "matches"
  ELSE IF kind = "HelpDisplayed" THEN "exit0"
  ELSE "exit1"

classify(kind) ==
  IF kind = "Ok" THEN "matches"
  ELSE IF kind = "HelpDisplayed" \/ kind = "VersionDisplayed" THEN "exit0"
  ELSE "exit1"

\* CoreOptions::parse.  options is None only after a panic of optcommon, which
\* ends the process, so the unwrap of the cloned options succeeds here.
parse ==
  \E args \in ArgVectors :
    /\ status = "running"
    /\ options.some
    /\ Len(matches) < MaxMatches
    /\ call' = Call("parse", <<>>, <<>>, args)
    /\ LET r == get_matches_from_safe(options.args, args)
           arm == classify(r.kind)
       IN /\ engine' = r.kind
          /\ CASE arm = "matches" ->
                    /\ matches' = Append(matches, NewMatches(r.inner))
                    /\ UNCHANGED <<status, exit_code, stdout, stderr>>
               [] arm = "exit0" ->
                    /\ stdout' = Append(stdout, r.msg)
                    /\ status' = "exit"
                    /\ exit_code' = 0
                    /\ UNCHANGED <<matches, stderr>>
               [] arm = "exit1" ->
                    /\ stderr' = Append(stderr, <<help_text.name, ": ", r.msg>>)
                    /\ status' = "exit"
                    /\ exit_code' = 1
                    /\ UNCHANGED <<matches, stdout>>
    /\ UNCHANGED <<help_text, options, short_to_long>>

RemoveAt(seq, i) == SubSeq(seq, 1, i - 1) \o SubSeq(seq, i + 1, Len(seq))

\* a Matches goes out of scope: its Rc is released
drop_matches ==
  \E i \in DOMAIN matches :
    /\ status = "running"
    /\ matches' = RemoveAt(matches, i)
    /\ call' = Call("drop", <<>>, <<>>, <<>>)
    /\ UNCHANGED <<help_text, options, short_to_long, status, exit_code,
                   stdout, stderr, engine>>

Next ==
  \/ optflag
  \/ optflagopt
  \/ optflagmulti
  \/ optopt
  \/ optmulti
  \/ optflags
  \/ parse
  \/ drop_matches

Spec == Init /\ [][Next]_vars

\* ================================================================= claims
RegOps == CommonOps \cup {"optflags"}
\* the options registered so far (options.args[1] is the positional ARGS)
Registered == IF options.some THEN Tail(options.args) ELSE <<>>
BothNamed(a) == a.short # "" /\ a.long # <<>>
\* the Matches a caller can query: none once the process has ended
Live == IF status = "running" THEN DOMAIN matches ELSE {}
SameAnswers(m, n1, n2) ==
  /\ opt_present(m, n1) = opt_present(m, n2)
  /\ opt_str(m, n1) = opt_str(m, n2)
\* no later registration gave the short name of Registered[k] another long name
LatestForShort(k) ==
  \A j \in DOMAIN Registered :
    (j > k /\ BothNamed(Registered[j]) /\ Registered[j].short = Registered[k].short)
      => Registered[j].long = Registered[k].long

\* C1 as stated: every option registered with a short and a long name answers
\* the same to opt_present and opt_str under both names, in every Matches.
C1_ShortLongAgree ==
  \A i \in Live : \A k \in DOMAIN Registered :
    BothNamed(Registered[k])
      => SameAnswers(matches[i], <<Registered[k].short>>, Registered[k].long)

\* C1 amended: an option registered with a one-character short name and a
\* long name of more than one character answers the same under both names,
\* provided no later registration gave that short name another long name.
C1_ShortLongAgreeLatest ==
  \A i \in Live : \A k \in DOMAIN Registered :
    (BothNamed(Registered[k]) /\ Len(Registered[k].long) > 1 /\ LatestForShort(k))
      => SameAnswers(matches[i], <<Registered[k].short>>, Registered[k].long)

\* C1 witness: after a second registration of the same short name, the latest
\* option is present with a value and is found under its short name.
C1_Witness ==
  \E i \in Live : \E k \in DOMAIN Registered : \E j \in DOMAIN Registered :
    /\ j < k
    /\ BothNamed(Registered[k]) /\ BothNamed(Registered[j])
    /\ Registered[j].short = Registered[k].short
    /\ Registered[j].long # Registered[k].long
    /\ opt_present(matches[i], <<Registered[k].short>>)
    /\ opt_str(matches[i], Registered[k].long) # None

\* C2 as stated: a Matches answers the same under every alias given to
\* optflags as under the canonical key of the option.
C2_AliasResolves ==
  \A i \in Live : \A k \in DOMAIN Registered :
    \A n \in DOMAIN Registered[k].aliases :
      SameAnswers(matches[i], Registered[k].aliases[n], Registered[k].name)

\* the names handed to any registration so far
RegisteredNames ==
  UNION { {<<Registered[k].short>>, Registered[k].long}
            \cup {Registered[k].aliases[n] : n \in DOMAIN Registered[k].aliases}
          : k \in DOMAIN Registered }
Unregistered == QueryNames \ RegisteredNames

\* C3 as stated: a name never registered is absent and has no value in every
\* Matches, alone or in a list of such names.
C3_UnknownAbsent ==
  \A i \in Live : \A x \in Unregistered : \A y \in Unregistered :
    /\ ~opt_present(matches[i], x)
    /\ opt_str(matches[i], x) = None
    /\ ~opts_present(matches[i], <<x, y>>)

\* C3 amended: a name never registered and different from "ARGS", the name of
\* the implicit positional, is absent and has no value in every Matches.
C3_UnknownAbsentButARGS ==
  \A i \in Live :
    \A x \in Unregistered \ {ARGS} : \A y \in Unregistered \ {ARGS} :
      /\ ~opt_present(matches[i], x)
      /\ opt_str(matches[i], x) = None
      /\ ~opts_present(matches[i], <<x, y>>)

\* C3 witness: a Matches with a free argument and a present option, queried
\* with a one-character and a longer name that were never registered.
C3_Witness ==
  \E i \in Live :
    /\ matches[i].free # <<>>
    /\ \E k \in DOMAIN Registered : opt_present(matches[i], Registered[k].name)
    /\ {<<"b">>, zz} \subseteq Unregistered
    /\ ~opt_present(matches[i], <<"b">>)
    /\ opt_str(matches[i], zz) = None

\* C4: a parse call ends in one of three ways, chosen by the engine's result:
\* help or version text on stdout and exit code 0; "<name>: <message>" on
\* stderr and exit code 1; or a new Matches and nothing else.
C4_ParseOutcome ==
  [][call'.op = "parse" =>
       LET r == get_matches_from_safe(options.args, call'.args)
       IN CASE r.kind = "Ok" ->
                 /\ matches' = Append(matches, NewMatches(r.inner))
                 /\ status' = "running" /\ exit_code' = -1
                 /\ stdout' = stdout /\ stderr' = stderr
            [] r.kind \in {"HelpDisplayed", "VersionDisplayed"} ->
                 /\ stdout' = Append(stdout, r.msg) /\ stderr' = stderr
                 /\ status' = "exit" /\ exit_code' = 0
                 /\ matches' = matches
            [] OTHER ->
                 /\ stderr' = Append(stderr, <<help_text.name, ": ", r.msg>>)
                 /\ stdout' = stdout
                 /\ status' = "exit" /\ exit_code' = 1
                 /\ matches' = matches]_vars

\* C4 witness: a parse that printed the version and left with code 0.
C4_Witness ==
  /\ call.op = "parse" /\ engine = "VersionDisplayed"
  /\ status = "exit" /\ exit_code = 0 /\ stdout # <<>>

\* C5 as stated: a registration with both names empty fails and leaves the
\* registered options and the alias table as they were.
C5_NoNameKeepsState ==
  [][(call'.op \in RegOps /\ is_empty(call'.short) /\ is_empty(call'.long))
       => /\ status' = "panic"
          /\ options' = options
          /\ short_to_long' = short_to_long]_vars

\* C5 amended: a registration with both names empty panics; the alias table
\* is left as it was and no option is added, but the option set is not kept:
\* it has been taken out of the CoreOptions (options is None).
C5_NoNameTakesOptions ==
  [][(call'.op \in RegOps /\ is_empty(call'.short) /\ is_empty(call'.long))
       => /\ status' = "panic"
          /\ stderr' = Append(stderr, PanicNoName)
          /\ options' = NoApp
          /\ short_to_long' = short_to_long
          /\ matches' = matches]_vars

\* C5 witness: optflags with two empty lists panicked on a CoreOptions whose
\* alias table was not empty.
C5_Witness ==
  /\ call.op = "optflags" /\ is_empty(call.short) /\ is_empty(call.long)
  /\ status = "panic"
  /\ DOMAIN short_to_long # {}

Plain(tok) == tok.dash = 0
Rest(args) == IF args = <<>> THEN <<>> ELSE Tail(args)
FlagsOnly == \A k \in DOMAIN Registered : ~Registered[k].takes_value
Captured(m) == IF ARGS \in DOMAIN m.inner THEN m.inner[ARGS].vals ELSE <<>>
RECURSIVE IsSubseq(_, _)
IsSubseq(s, t) ==
  IF s = <<>> THEN TRUE
  ELSE IF t = <<>> THEN FALSE
  ELSE IF Head(s) = Head(t) THEN IsSubseq(Tail(s), Tail(t))
  ELSE IsSubseq(s, Tail(t))
Returned == matches[Len(matches)]
AfterParseOk == status = "running" /\ call.op = "parse"

InTable(s, key) == s \in DOMAIN short_to_long /\ short_to_long[s] = key
OnlyForShort(k) ==
  \A j \in DOMAIN Registered :
    j # k => Registered[j].short # Registered[k].short

\* C7 as stated: the alias table holds every registered short name, the alias
\* short names of optflags and the short names of options without a long name
\* included, each pointing at the canonical key of its option.
C7_AllShortsInTable ==
  \A k \in DOMAIN Registered :
    /\ (Registered[k].short # "" /\ OnlyForShort(k))
         => InTable(<<Registered[k].short>>, Registered[k].name)
    /\ \A n \in DOMAIN Registered[k].aliases :
         Len(Registered[k].aliases[n]) = 1
           => InTable(Registered[k].aliases[n], Registered[k].name)

C9_ReadOnlyAfterParse ==
  [][engine # "none" => short_to_long' = short_to_long]_vars

\* C9 amended: nothing changes the alias table while a Matches returned by
\* parse is alive; after the last one is dropped a registration may change it.
C9_ReadOnlyWhileShared ==
  [][matches # <<>> => short_to_long' = short_to_long]_vars

\* C9 witness: a registration after a parse changed the table, the Matches
\* having been dropped.
C9_Witness ==
  /\ engine = "Ok" /\ matches = <<>> /\ status = "running"
  /\ call.op \in RegOps /\ ~is_empty(call.short) /\ ~is_empty(call.long)
  /\ InTable(call.short, call.long)

\* C10: while a Matches is alive a registration with both names panics and
\* leaves the table as it is, a registration with one name succeeds without
\* touching the table; with no Matches alive a registration with both names
\* succeeds and enters the table; a Matches that stays answers every query as
\* before.
C10_TableFrozenWhileShared ==
  [][/\ (call'.op \in RegOps /\ ~is_empty(call'.short) /\ ~is_empty(call'.long))
          => IF matches # <<>>
             THEN /\ status' = "panic"
                  /\ stderr' = Append(stderr, PanicUnwrap)
                  /\ short_to_long' = short_to_long
             ELSE /\ status' = "running"
                  /\ Len(options'.args) = Len(options.args) + 1
                  /\ short_to_long'[call'.short] = call'.long
     /\ (call'.op \in RegOps /\ matches # <<>>
           /\ is_empty(call'.short) # is_empty(call'.long))
          => /\ status' = "running"
             /\ Len(options'.args) = Len(options.args) + 1
             /\ short_to_long' = short_to_long
     /\ \A i \in DOMAIN matches :
          (i \in DOMAIN matches' /\ matches'[i] = matches[i])
            => \A nm \in QueryNames :
                 /\ opt_present(matches[i], nm)' = opt_present(matches[i], nm)
                 /\ opt_str(matches[i], nm)' = opt_str(matches[i], nm)
                 /\ opts_present(matches[i], <<nm>>)'
                      = opts_present(matches[i], <<nm>>)]_vars

\* C10 witness: a registration with both names panicked on the unwrap of
\* Rc::get_mut while a Matches was alive.
C10_Witness ==
  /\ status = "panic" /\ matches # <<>>
  /\ call.op \in RegOps /\ ~is_empty(call.short) /\ ~is_empty(call.long)
  /\ stderr[Len(stderr)] = PanicUnwrap

====
